---- MODULE Spec2Model ----
(***************************************************************************)
(* A model of the rollout / training interleaving of the two agents of     *)
(* rl/agents: the PPO agent (ppo.py) and the SAC agent (sac.py).           *)
(*                                                                         *)
(* The driver calls Agent.run(max_step) repeatedly; one run is a call      *)
(* frame (cur) that is opened by RunBegin, advanced by one Step per        *)
(* iteration of the while loop, and closed by RunEnd (the logging tail and *)
(* the return) or by an exception raised inside the loop body.             *)
(*                                                                         *)
(* Network parameters are symbolic: a live network is the number of        *)
(* optimizer steps applied to it, a target network is the term built from  *)
(* the hard copy and the Polyak updates applied to it.                     *)
(***************************************************************************)
EXTENDS Integers, Sequences, FiniteSets, TLC

VARIABLES
    agents,   \* the constructed agents of one class
    self,     \* self[a]: the fields of agent a
    heap,     \* the objects built when the def statement of __init__ ran
    cur,      \* the running call of Agent.run: its local variables
    last,     \* how the last ended call of Agent.run ended
    calls,    \* the calls made by the last executed loop iteration, in order
    hist,     \* hist[a]: counters of what agent a has done so far
    budget,   \* environment steps the driver still asks for
    runs      \* number of Agent.run calls started (= env.reset calls)

vars == <<agents, self, heap, cur, last, calls, hist, budget, runs>>

----------------------------------------------------------------------------
(* Bounds of the model *)

SampleSize == 3
BatchSize == 2
BufferSize == 4
MiniBatchSize == 1
Epoch == 1
MaxStep == 3
MaxTotal == 4
MaxTotalTwo == 3
MaxRuns == 3

Agents == {1, 2}
Modes == {"raw", "embed"}
Rewards == {0, 1}

----------------------------------------------------------------------------
(* Observations, the environment and the encoder *)

NoObs == [space |-> "none", t |-> 0]

\* env.reset() returns the first raw observation of an episode
EnvReset == [space |-> "raw", t |-> 0]

\* env.step(action): the next raw observation
EnvNextObs(obs) == [space |-> "raw", t |-> obs.t + 1]

\* self.model.encode(obs)[0]: the latent image of a raw observation
Encode(obs) == [space |-> "latent", t |-> obs.t]

\* one call made by a loop iteration: the operation, the observation it was
\* given (NoObs if none) and the number of stored transitions it found
Ev(op, obs, n) == [op |-> op, obs |-> obs, n |-> n]

RECURSIVE CountOp(_, _)
CountOp(cs, op) ==
    IF cs = <<>> THEN 0
    ELSE (IF Head(cs).op = op THEN 1 ELSE 0) + CountOp(Tail(cs), op)

Log(m, op, obs, n) == [m EXCEPT !.calls = Append(@, Ev(op, obs, n))]

Raise(m) == [m EXCEPT !.raised = TRUE]

----------------------------------------------------------------------------
(* Logging: round(np.mean(history), digits) *)

RECURSIVE SumSeq(_)
SumSeq(s) == IF s = <<>> THEN 0 ELSE Head(s) + SumSeq(Tail(s))

RECURSIVE Pow10(_)
Pow10(n) == IF n = 0 THEN 1 ELSE 10 * Pow10(n - 1)

\* n / d rounded to the nearest integer, ties to even
RoundDiv(n, d) ==
    LET q == n \div d
        r == n - q * d
    IN  IF 2 * r < d THEN q
        ELSE IF 2 * r > d THEN q + 1
        ELSE IF q % 2 = 0 THEN q ELSE q + 1

NaN == [nan |-> TRUE, v |-> 0]

\* np.mean of a list: nan for the empty list
\* the value is kept in units of 10^-digits
RoundedMean(history, digits) ==
    IF Len(history) = 0
    THEN NaN
    ELSE [nan |-> FALSE,
          v |-> RoundDiv(SumSeq(history) * Pow10(digits), Len(history))]

EmptyLogger == [k \in {} |-> NaN]

LoggerSet(logger, key, value) == (key :> value) @@ logger

----------------------------------------------------------------------------
(* The call frame of Agent.run *)

NoFrame ==
    [active |-> FALSE, agent |-> 0, max_step |-> 0, step_number |-> 0,
     total_reward |-> 0, obs |-> NoObs, next_obs |-> NoObs, reward |-> 0,
     done |-> FALSE, rewards |-> <<>>, env_calls |-> 0]

NoResult ==
    [kind |-> "none", agent |-> 0, max_step |-> 0, step_number |-> 0,
     total_reward |-> 0, rewards |-> <<>>, env_calls |-> 0]

\* step_number = 0; total_reward = 0.; obs = self.env.reset(); done = False
NewFrame(a, max_step) ==
    [NoFrame EXCEPT !.active = TRUE, !.agent = a, !.max_step = max_step,
                    !.obs = EnvReset]

\* while not (done or step_number == max_step)
LoopGuard(f) == ~(f.done \/ f.step_number = f.max_step)

\* next_obs, reward, done, _ = self.env.step(action)
\* (rewards and env_calls record the calls made, for the properties)
EnvStep(f, reward, done) ==
    [f EXCEPT !.next_obs = EnvNextObs(f.obs),
              !.reward = reward,
              !.done = done,
              !.rewards = Append(@, reward),
              !.env_calls = @ + 1]

\* total_reward += reward; step_number += 1; obs = next_obs
LoopTail(f) ==
    [f EXCEPT !.total_reward = @ + f.reward,
              !.step_number = @ + 1,
              !.obs = f.next_obs]

\* what the caller of run sees: the returned tuple, or the exception
Result(kind, f) ==
    [kind |-> kind, agent |-> f.agent, max_step |-> f.max_step,
     step_number |-> f.step_number, total_reward |-> f.total_reward,
     rewards |-> f.rewards, env_calls |-> f.env_calls]

NewHist == [env_steps |-> 0, eval_steps |-> 0, trains |-> 0]

\* the state a loop iteration works on: the agent, the shared objects, the
\* frame, the calls made so far and whether an exception is propagating
Machine(s, h, f) == [s |-> s, heap |-> h, f |-> f, calls |-> <<>>, raised |-> FALSE]

HeapAppend(h, ref, x) == [h EXCEPT ![ref] = Append(@, x)]

----------------------------------------------------------------------------
(* SAC: construction *)

SACOutcomes ==
    {[pi |-> -1, q1 |-> 1, q2 |-> 2, al |-> 0],
     [pi |-> 2, q1 |-> 0, q2 |-> 1, al |-> -1]}

\* hard_target_update(main, target): the target becomes a copy of main
HardTargetUpdate(main, target) == <<main>>

\* soft_target_update(main, target): tau*main + (1-tau)*target, kept as a term
SoftTargetUpdate(main, target) == Append(target, main)

Net(name) == [net |-> name, ver |-> 0]

\* optimizer.step() on a network
OptimizerStep(net) == [net EXCEPT !.ver = @ + 1]

\* ReplayBuffer(obs_dim, act_dim, buffer_size)
NewReplayBuffer(size) == [data |-> <<>>, ptr |-> 0, max_size |-> size]

\* ReplayBuffer.add: a ring that overwrites the oldest entry once full
ReplayBufferAdd(rb, tr) ==
    [rb EXCEPT !.data = IF Len(@) < rb.max_size
                        THEN Append(@, tr)
                        ELSE [@ EXCEPT ![rb.ptr + 1] = tr],
               !.ptr = (@ + 1) % rb.max_size]

\* ReplayBuffer.sample(batch_size) fails on fewer than batch_size entries
ReplayBufferSampleFails(rb, batch_size) == Len(rb.data) < batch_size

\* the objects built once, when the def statement of __init__ is executed:
\* actor_losses=list(), qf1_losses=list(), qf2_losses=list(),
\* alpha_losses=list(), logger=dict()
SAC_Defaults ==
    [actor_losses |-> <<>>, qf1_losses |-> <<>>, qf2_losses |-> <<>>,
     alpha_losses |-> <<>>, logger |-> EmptyLogger]

\* Agent(env, args, obs_dim, act_dim, act_limit,
\*       automatic_entropy_tuning=..., buffer_size=..., batch_size=...)
SAC_New(mode, automatic_entropy_tuning) ==
    [mode |-> mode,
     steps |-> 0,
     automatic_entropy_tuning |-> automatic_entropy_tuning,
     buffer_size |-> BufferSize,
     batch_size |-> BatchSize,
     eval_mode |-> FALSE,
     actor_losses |-> "actor_losses",
     qf1_losses |-> "qf1_losses",
     qf2_losses |-> "qf2_losses",
     alpha_losses |-> "alpha_losses",
     logger |-> "logger",
     actor |-> Net("actor"),
     qf1 |-> Net("qf1"),
     qf2 |-> Net("qf2"),
     qf1_target |-> HardTargetUpdate(Net("qf1"), <<Net("qf1_target")>>),
     qf2_target |-> HardTargetUpdate(Net("qf2"), <<Net("qf2_target")>>),
     replay_buffer |-> NewReplayBuffer(BufferSize),
     log_alpha |-> Net("log_alpha"),
     alpha |-> Net("alpha")]

----------------------------------------------------------------------------
(* SAC: train_model *)

\* qf1_optimizer.step(); qf2_optimizer.step()
SAC_QSteps(m) ==
    LET m1 == [m EXCEPT !.s.qf1 = OptimizerStep(@)]
        m2 == Log(m1, "qf1_optimizer.step", NoObs, 0)
        m3 == [m2 EXCEPT !.s.qf2 = OptimizerStep(@)]
    IN  Log(m3, "qf2_optimizer.step", NoObs, 0)

\* actor_optimizer.step()
SAC_ActorStep(m) ==
    Log([m EXCEPT !.s.actor = OptimizerStep(@)], "actor_optimizer.step", NoObs, 0)

\* if self.automatic_entropy_tuning: alpha_optimizer.step();
\*    self.alpha = self.log_alpha.exp(); self.alpha_losses.append(...)
SAC_AlphaStep(m, out) ==
    IF m.s.automatic_entropy_tuning
    THEN LET la == OptimizerStep(m.s.log_alpha)
             m1 == [m EXCEPT !.s.log_alpha = la,
                             !.s.alpha = [net |-> "exp(log_alpha)", ver |-> la.ver],
                             !.heap = HeapAppend(@, m.s.alpha_losses, out.al)]
         IN  Log(m1, "alpha_optimizer.step", NoObs, 0)
    ELSE m

\* soft_target_update(self.qf1, self.qf1_target)
\* soft_target_update(self.qf2, self.qf2_target)
SAC_Polyak(m) ==
    LET m1 == [m EXCEPT !.s.qf1_target = SoftTargetUpdate(m.s.qf1, @)]
        m2 == Log(m1, "soft_target_update", NoObs, 1)
        m3 == [m2 EXCEPT !.s.qf2_target = SoftTargetUpdate(m.s.qf2, @)]
    IN  Log(m3, "soft_target_update", NoObs, 2)

\* the target update moved in front of the optimizer steps
SAC_UpdateParams_PolyakFirst(m, out) ==
    SAC_AlphaStep(SAC_ActorStep(SAC_QSteps(SAC_Polyak(m))), out)

\* the optimizer steps of one train_model call followed by the target update
SAC_UpdateParams(m, out) ==
    SAC_Polyak(SAC_AlphaStep(SAC_ActorStep(SAC_QSteps(m)), out))

\* self.actor_losses.append(...); qf1_losses.append(...); qf2_losses.append(...)
SAC_SaveLosses(m, out) ==
    [m EXCEPT !.heap =
        HeapAppend(HeapAppend(HeapAppend(@, m.s.actor_losses, out.pi),
                              m.s.qf1_losses, out.q1),
                   m.s.qf2_losses, out.q2)]

SAC_TrainModel(m, out) ==
    LET m1 == Log(m, "train_model", NoObs, Len(m.s.replay_buffer.data))
    IN  IF ReplayBufferSampleFails(m.s.replay_buffer, m.s.batch_size)
        THEN Raise(m1)
        ELSE SAC_SaveLosses(SAC_UpdateParams(m1, out), out)

----------------------------------------------------------------------------
(* SAC: run *)

\* the observation handed to the actor in evaluation mode
SAC_EvalObs(s, obs) == obs

\* if self.eval_mode: action = self.actor(obs); env.step(action)
SAC_EvalStep(m, reward, done) ==
    LET m1 == Log(m, "actor", SAC_EvalObs(m.s, m.f.obs), 0)
        m2 == Log(m1, "env.step", NoObs, 0)
    IN  [m2 EXCEPT !.f = EnvStep(@, reward, done)]

\* mode 'raw': actor(obs); env.step; replay_buffer.add(obs, ..., next_obs, done)
SAC_RawStep(m, reward, done) ==
    LET m1 == Log(m, "actor", m.f.obs, 0)
        m2 == Log(m1, "env.step", NoObs, 0)
        m3 == [m2 EXCEPT !.f = EnvStep(@, reward, done)]
        tr == [obs1 |-> m3.f.obs, rew |-> reward, obs2 |-> m3.f.next_obs,
               done |-> done]
        m4 == Log(m3, "replay_buffer.add", tr.obs1, Len(m3.s.replay_buffer.data))
    IN  [m4 EXCEPT !.s.replay_buffer = ReplayBufferAdd(@, tr)]

\* mode 'embed': z_obs = encode(obs); actor(z_obs); env.step;
\*    z_next_obs = encode(next_obs); replay_buffer.add(z_obs, ..., z_next_obs, done)
SAC_EmbedStep(m, reward, done) ==
    LET z_obs == Encode(m.f.obs)
        m1 == Log(m, "actor", z_obs, 0)
        m2 == Log(m1, "env.step", NoObs, 0)
        m3 == [m2 EXCEPT !.f = EnvStep(@, reward, done)]
        z_next_obs == Encode(m3.f.next_obs)
        tr == [obs1 |-> z_obs, rew |-> reward, obs2 |-> z_next_obs,
               done |-> done]
        m4 == Log(m3, "replay_buffer.add", tr.obs1, Len(m3.s.replay_buffer.data))
    IN  [m4 EXCEPT !.s.replay_buffer = ReplayBufferAdd(@, tr)]

\* the warm-up test written with >= : training starts one step early
SAC_ShouldTrain_AtBatchSize(s) == s.steps >= s.batch_size

\* if self.steps > self.batch_size
SAC_ShouldTrain(s) == s.steps > s.batch_size

\* one iteration of the while loop of run
SAC_LoopBody(m, reward, done, out) ==
    LET m0 == [m EXCEPT !.s.steps = @ + 1]
    IN  IF m0.s.eval_mode
        THEN [SAC_EvalStep(m0, reward, done) EXCEPT !.f = LoopTail(@)]
        ELSE LET m1 == IF m0.s.mode = "raw"
                       THEN SAC_RawStep(m0, reward, done)
                       ELSE SAC_EmbedStep(m0, reward, done)
                 m2 == IF SAC_ShouldTrain(m1.s)
                       THEN SAC_TrainModel(m1, out)
                       ELSE m1
             IN  IF m2.raised THEN m2 ELSE [m2 EXCEPT !.f = LoopTail(@)]

\* the logging tail of run
SAC_SaveLogs(s, h) ==
    LET l1 == LoggerSet(h[s.logger], "LossPi", RoundedMean(h[s.actor_losses], 4))
        l2 == LoggerSet(l1, "LossQ1", RoundedMean(h[s.qf1_losses], 4))
        l3 == LoggerSet(l2, "LossQ2", RoundedMean(h[s.qf2_losses], 4))
        l4 == IF s.automatic_entropy_tuning
              THEN LoggerSet(l3, "LossAlpha", RoundedMean(h[s.alpha_losses], 4))
              ELSE l3
    IN  [h EXCEPT ![s.logger] = l4]

----------------------------------------------------------------------------
(* The driver *)

\* what agent a has done, after a loop iteration that ended in m
HistAfter(h, m) ==
    [h EXCEPT !.env_steps = @ + CountOp(m.calls, "env.step"),
              !.eval_steps = @ + (IF m.s.eval_mode THEN 1 ELSE 0),
              !.trains = @ + CountOp(m.calls, "train_model")]

\* the driver starts agent.run(max_step)
RunBegin(a, max_step) ==
    /\ ~cur.active
    /\ runs < MaxRuns
    /\ max_step <= budget
    /\ cur' = NewFrame(a, max_step)
    /\ runs' = runs + 1
    /\ calls' = <<>>
    /\ UNCHANGED <<agents, self, heap, last, hist, budget>>

\* the loop iteration ended in m: the run goes on, or the exception leaves it
IterationEnds(a, m) ==
    /\ self' = [self EXCEPT ![a] = m.s]
    /\ heap' = m.heap
    /\ calls' = m.calls
    /\ hist' = [hist EXCEPT ![a] = HistAfter(@, m)]
    /\ budget' = budget - 1
    /\ IF m.raised
       THEN cur' = NoFrame /\ last' = Result("raised", m.f)
       ELSE cur' = m.f /\ last' = last
    /\ UNCHANGED <<agents, runs>>

\* the driver sets agent.eval_mode between two runs
SetEvalMode(a, b) ==
    /\ ~cur.active
    /\ self[a].eval_mode # b
    /\ self' = [self EXCEPT ![a].eval_mode = b]
    /\ UNCHANGED <<agents, heap, cur, last, calls, hist, budget, runs>>

----------------------------------------------------------------------------
(* SAC: the actions *)

SAC_RunBegin ==
    \E a \in agents, max_step \in 0..MaxStep : RunBegin(a, max_step)

SAC_Step ==
    /\ cur.active
    /\ LoopGuard(cur)
    /\ \E reward \in Rewards, done \in BOOLEAN, out \in SACOutcomes :
          IterationEnds(cur.agent,
              SAC_LoopBody(Machine(self[cur.agent], heap, cur), reward, done, out))

SAC_RunEnd ==
    /\ cur.active
    /\ ~LoopGuard(cur)
    /\ heap' = SAC_SaveLogs(self[cur.agent], heap)
    /\ last' = Result("returned", cur)
    /\ cur' = NoFrame
    /\ UNCHANGED <<agents, self, calls, hist, budget, runs>>

SAC_SetEvalMode ==
    \E a \in agents, b \in BOOLEAN : SetEvalMode(a, b)

SAC_InitWith(as, total) ==
    /\ agents = as
    /\ \E mode \in Modes, aet \in BOOLEAN :
          self = [a \in as |-> SAC_New(mode, aet)]
    /\ heap = SAC_Defaults
    /\ cur = NoFrame
    /\ last = NoResult
    /\ calls = <<>>
    /\ hist = [a \in as |-> NewHist]
    /\ budget = total
    /\ runs = 0

SAC_Init == SAC_InitWith({1}, MaxTotal)

SAC_Next ==
    \/ SAC_RunBegin
    \/ SAC_Step
    \/ SAC_RunEnd
    \/ SAC_SetEvalMode

SpecSAC == SAC_Init /\ [][SAC_Next]_vars

----------------------------------------------------------------------------
(* PPO: construction *)

PPOOutcomes ==
    {[pi |-> -1, v |-> 2, kl |-> 0, ent |-> 1],
     [pi |-> 1, v |-> 1, kl |-> 1, ent |-> 2]}

\* Buffer(obs_dim, act_dim, sample_size, gamma, lam)
\* (last_path records the segment the last finish_path call worked on)
NewBuffer(size) ==
    [data |-> <<>>, path_start |-> 0, max_size |-> size, last_path |-> <<>>]

\* Buffer.add fails when the buffer is already full
BufferAddFails(b) == Len(b.data) >= b.max_size

BufferAdd(b, tr) == [b EXCEPT !.data = Append(@, tr)]

\* Buffer.finish_path: returns and advantages of the segment added since the
\* last call
BufferFinishPath(b) ==
    [b EXCEPT !.last_path = SubSeq(b.data, b.path_start + 1, Len(b.data)),
              !.path_start = Len(b.data)]

\* Buffer.get fails unless the buffer is exactly full
BufferGetFails(b) == Len(b.data) # b.max_size

\* Buffer.get hands out the whole buffer and starts it again at index 0
BufferGet(b) == [b EXCEPT !.data = <<>>, !.path_start = 0]

\* the objects built once, when the def statement of __init__ is executed:
\* actor_losses=list(), critic_losses=list(), kls=list(), entropies=list(),
\* logger=dict()
PPO_Defaults ==
    [actor_losses |-> <<>>, critic_losses |-> <<>>, kls |-> <<>>,
     entropies |-> <<>>, logger |-> EmptyLogger]

\* Agent(env, args, obs_dim, act_dim, act_limit, sample_size=..., ...)
PPO_New(mode) ==
    [mode |-> mode,
     steps |-> 0,
     sample_size |-> SampleSize,
     mini_batch_size |-> MiniBatchSize,
     epoch |-> Epoch,
     eval_mode |-> FALSE,
     actor_losses |-> "actor_losses",
     critic_losses |-> "critic_losses",
     kls |-> "kls",
     entropies |-> "entropies",
     logger |-> "logger",
     actor |-> Net("actor"),
     critic |-> Net("critic"),
     buffer |-> NewBuffer(SampleSize)]

----------------------------------------------------------------------------
(* PPO: train_model *)

\* for _ in range(epoch): for _ in range(sample_size // mini_batch_size):
\*    critic_optimizer.step(); actor_optimizer.step()
PPO_Updates(s) == s.epoch * (s.sample_size \div s.mini_batch_size)

PPO_OptimizerSteps(m) ==
    LET n == PPO_Updates(m.s)
    IN  [m EXCEPT !.s.critic.ver = @ + n, !.s.actor.ver = @ + n]

\* self.actor_losses.append(actor_loss.item()) ... self.entropies.append(...)
PPO_SaveLosses(m, out) ==
    [m EXCEPT !.heap =
        HeapAppend(HeapAppend(HeapAppend(HeapAppend(@,
            m.s.actor_losses, out.pi),
            m.s.critic_losses, out.v),
            m.s.kls, out.kl),
            m.s.entropies, out.ent)]

\* train_model: batch = self.buffer.get(); the update loops; the appends
\* (actor_loss is unbound when the loops run no iteration)
PPO_TrainModel(m, out) ==
    LET m1 == Log(m, "train_model", NoObs, Len(m.s.buffer.data))
    IN  IF BufferGetFails(m.s.buffer)
        THEN Raise(m1)
        ELSE LET m2 == [m1 EXCEPT !.s.buffer = BufferGet(@)]
                 m3 == PPO_OptimizerSteps(m2)
             IN  IF PPO_Updates(m.s) = 0
                 THEN Raise(m3)
                 ELSE PPO_SaveLosses(m3, out)

----------------------------------------------------------------------------
(* PPO: run *)

\* self.steps += 1; val = self.critic(critic_obs);
\* self.buffer.add(stored_obs, action, reward, done, val)
\* (ep, the number of the episode, is kept with the transition for the properties)
PPO_Collect(m, stored_obs, critic_obs, ep) ==
    LET m1 == [m EXCEPT !.s.steps = @ + 1]
        m2 == Log(m1, "critic", critic_obs, 0)
        m3 == Log(m2, "buffer.add", stored_obs, Len(m2.s.buffer.data))
        tr == [obs |-> stored_obs, rew |-> m.f.reward, done |-> m.f.done,
               val |-> critic_obs, ep |-> ep]
    IN  IF BufferAddFails(m3.s.buffer)
        THEN Raise(m3)
        ELSE [m3 EXCEPT !.s.buffer = BufferAdd(@, tr)]

\* if self.steps == self.sample_size:
\*    self.buffer.finish_path(); self.train_model(); self.steps = 0
PPO_TrainWhenFull(m, out) ==
    IF m.s.steps = m.s.sample_size
    THEN LET m1 == Log(m, "buffer.finish_path", NoObs, Len(m.s.buffer.data))
             m2 == [m1 EXCEPT !.s.buffer = BufferFinishPath(@)]
             m3 == PPO_TrainModel(m2, out)
         IN  IF m3.raised THEN m3 ELSE [m3 EXCEPT !.s.steps = 0]
    ELSE m

\* if self.args.mode == 'raw'
PPO_RawStep(m, reward, done, out, ep) ==
    LET m1 == Log(m, "actor", m.f.obs, 0)
        m2 == Log(m1, "env.step", NoObs, 0)
        m3 == [m2 EXCEPT !.f = EnvStep(@, reward, done)]
    IN  IF m.s.eval_mode
        THEN m3
        ELSE PPO_Collect(m3, m.f.obs, m.f.obs, ep)

\* elif self.args.mode == 'embed'
PPO_EmbedStep(m, reward, done, out, ep) ==
    LET z_obs == Encode(m.f.obs)
        m1 == Log(m, "actor", z_obs, 0)
        m2 == Log(m1, "env.step", NoObs, 0)
        m3 == [m2 EXCEPT !.f = EnvStep(@, reward, done)]
    IN  IF m.s.eval_mode
        THEN m3
        ELSE LET m4 == PPO_Collect(m3, z_obs, m.f.obs, ep)
             IN  IF m4.raised THEN m4 ELSE PPO_TrainWhenFull(m4, out)

\* one iteration of the while loop of run
PPO_LoopBody(m, reward, done, out, ep) ==
    LET m1 == IF m.s.mode = "raw"
              THEN PPO_RawStep(m, reward, done, out, ep)
              ELSE PPO_EmbedStep(m, reward, done, out, ep)
    IN  IF m1.raised THEN m1 ELSE [m1 EXCEPT !.f = LoopTail(@)]

\* the logging tail of run
PPO_SaveLogs(s, h) ==
    LET l1 == LoggerSet(h[s.logger], "LossPi", RoundedMean(h[s.actor_losses], 5))
        l2 == LoggerSet(l1, "LossV", RoundedMean(h[s.critic_losses], 5))
        l3 == LoggerSet(l2, "KL", RoundedMean(h[s.kls], 5))
        l4 == LoggerSet(l3, "Entropy", RoundedMean(h[s.entropies], 5))
    IN  [h EXCEPT ![s.logger] = l4]

----------------------------------------------------------------------------
(* PPO: the actions *)

PPO_RunBegin ==
    \E a \in agents, max_step \in 0..MaxStep : RunBegin(a, max_step)

PPO_Step ==
    /\ cur.active
    /\ LoopGuard(cur)
    /\ \E reward \in Rewards, done \in BOOLEAN, out \in PPOOutcomes :
          IterationEnds(cur.agent,
              PPO_LoopBody(Machine(self[cur.agent], heap, cur),
                           reward, done, out, runs))

PPO_RunEnd ==
    /\ cur.active
    /\ ~LoopGuard(cur)
    /\ heap' = PPO_SaveLogs(self[cur.agent], heap)
    /\ last' = Result("returned", cur)
    /\ cur' = NoFrame
    /\ UNCHANGED <<agents, self, calls, hist, budget, runs>>

PPO_SetEvalMode ==
    \E a \in agents, b \in BOOLEAN : SetEvalMode(a, b)

PPO_Init ==
    /\ agents = {1}
    /\ \E mode \in Modes : self = [a \in {1} |-> PPO_New(mode)]
    /\ heap = PPO_Defaults
    /\ cur = NoFrame
    /\ last = NoResult
    /\ calls = <<>>
    /\ hist = [a \in {1} |-> NewHist]
    /\ budget = MaxTotal
    /\ runs = 0

PPO_Next ==
    \/ PPO_RunBegin
    \/ PPO_Step
    \/ PPO_RunEnd
    \/ PPO_SetEvalMode

SpecPPO == PPO_Init /\ [][PPO_Next]_vars

SAC_InitTwo == SAC_InitWith({1, 2}, MaxTotalTwo)

SpecSACTwo == SAC_InitTwo /\ [][SAC_Next]_vars

----------------------------------------------------------------------------
(* Properties *)

\* on-policy steps agent a has collected: its training-mode environment steps
Collected(a) == hist[a].env_steps - hist[a].eval_steps

\* position of the first call of op in cs, 0 if there is none
RECURSIVE FirstOp(_, _)
FirstOp(cs, op) ==
    IF cs = <<>> THEN 0
    ELSE IF Head(cs).op = op THEN 1
    ELSE LET k == FirstOp(Tail(cs), op) IN IF k = 0 THEN 0 ELSE k + 1

\* all transitions of a segment belong to one episode
SingleEpisode(seg) == \A i, j \in DOMAIN seg : seg[i].ep = seg[j].ep

\* the space every observation is in, by args.mode
SpaceOf(mode) == IF mode = "raw" THEN "raw" ELSE "latent"

\* C1: PPO in training mode, either mode, fresh agent: every time sample_size
\* on-policy steps have been collected the agent has called finish_path, then
\* train_model, then reset steps to 0, before the next environment step; so
\* the number of train_model calls is the number of collected steps divided
\* by sample_size.
C1_TrainsEverySampleSize ==
    \A a \in agents :
        /\ hist[a].trains = Collected(a) \div SampleSize
        /\ self[a].steps = Collected(a) % SampleSize
        /\ FirstOp(calls, "train_model") > 0 =>
              /\ FirstOp(calls, "buffer.finish_path") > 0
              /\ FirstOp(calls, "buffer.finish_path") < FirstOp(calls, "train_model")

\* C2: SAC warm-up: at every train_model call the replay buffer holds
\* strictly more than batch_size transitions, so sample(batch_size) never
\* fails, over any runs with training and evaluation mode interleaved.
C2_NoTrainingDuringWarmup ==
    /\ \A i \in DOMAIN calls :
          calls[i].op = "train_model" => calls[i].n > BatchSize
    /\ last.kind # "raised"

\* C3: SAC in training mode on a fresh agent: the k-th environment step is
\* followed by exactly one train_model call if k > batch_size and by none if
\* k <= batch_size, before the next step is taken; so batch_size+1 steps
\* trigger exactly one training call.
C3_TrainsOncePerStepAfterWarmup ==
    /\ [](\A a \in agents :
            hist[a].eval_steps = 0 =>
               hist[a].trains =
                  IF hist[a].env_steps > BatchSize
                  THEN hist[a].env_steps - BatchSize ELSE 0)
    /\ [][\A a \in agents :
            (hist'[a].env_steps = hist[a].env_steps + 1 /\ hist'[a].eval_steps = 0) =>
               /\ hist'[a].trains - hist[a].trains =
                     IF hist'[a].env_steps > BatchSize THEN 1 ELSE 0
               /\ CountOp(calls', "train_model") = hist'[a].trains - hist[a].trains
               /\ cur'.active]_vars

C3_Witness ==
    \E a \in agents :
        /\ hist[a].eval_steps = 0
        /\ hist[a].env_steps = BatchSize + 1
        /\ hist[a].trains = 1
        /\ CountOp(calls, "train_model") = 1

\* C4: PPO in training mode: buffer.add is never called when the buffer
\* already holds sample_size transitions since its last get(), and
\* train_model is called only when the buffer holds exactly sample_size.
C4_BufferNeverOverfilled ==
    \A i \in DOMAIN calls :
        /\ calls[i].op = "buffer.add" => calls[i].n < SampleSize
        /\ calls[i].op = "train_model" => calls[i].n = SampleSize

\* C5: PPO path boundaries: finish_path is called at every episode boundary
\* and when the buffer becomes full, before the first transition of the next
\* episode is added; so neither the segment still open nor a segment handed
\* to finish_path spans two episodes.
C5_PathsWithinOneEpisode ==
    \A a \in agents :
        LET b == self[a].buffer
        IN  /\ SingleEpisode(SubSeq(b.data, b.path_start + 1, Len(b.data)))
            /\ SingleEpisode(b.last_path)

\* C6: observation spaces: every observation given to the policy, to the
\* critic for the recorded value and to the buffer is raw in mode 'raw' and
\* latent in mode 'embed'; the value stored with a transition is the
\* critic's estimate at the stored observation.
C6_OneObservationSpace ==
    \A a \in agents :
        /\ \A i \in DOMAIN calls :
              calls[i].op \in {"actor", "critic", "buffer.add", "replay_buffer.add"}
                 => calls[i].obs.space = SpaceOf(self[a].mode)
        /\ \A i \in DOMAIN self[a].buffer.data :
              self[a].buffer.data[i].val = self[a].buffer.data[i].obs

\* the calls of the loop iteration this step executed for a, none otherwise
IterationCalls(a) == IF hist'[a] # hist[a] THEN calls' ELSE <<>>

\* C7: SAC targets: hard copies of qf1, qf2 at construction; afterwards they
\* change only by the Polyak update, applied to both exactly once per
\* train_model call, after the optimizer steps of that call; nothing else
\* (environment steps, evaluation runs, logging) changes them.
C7_TargetsChangeOnlyByPolyak ==
    /\ [](\A a \in agents :
            self[a].qf1.ver = 0 /\ self[a].qf2.ver = 0 =>
               /\ self[a].qf1_target = HardTargetUpdate(self[a].qf1, <<>>)
               /\ self[a].qf2_target = HardTargetUpdate(self[a].qf2, <<>>))
    /\ [][\A a \in agents :
            LET cs == IterationCalls(a)
                k == CountOp(cs, "actor_optimizer.step")
            IN  /\ k = CountOp(cs, "qf1_optimizer.step")
                /\ k = CountOp(cs, "qf2_optimizer.step")
                /\ k = 0 =>
                      /\ self'[a].qf1_target = self[a].qf1_target
                      /\ self'[a].qf2_target = self[a].qf2_target
                      /\ self'[a].qf1 = self[a].qf1
                      /\ self'[a].qf2 = self[a].qf2
                /\ k # 0 =>
                      /\ k = 1
                      /\ CountOp(cs, "train_model") = 1
                      /\ CountOp(cs, "soft_target_update") = 2
                      /\ \A i, j \in DOMAIN cs :
                            (cs[i].op = "soft_target_update" /\
                             cs[j].op \in {"qf1_optimizer.step", "qf2_optimizer.step",
                                           "actor_optimizer.step",
                                           "alpha_optimizer.step"}) => j < i
                      /\ self'[a].qf1_target =
                            SoftTargetUpdate(self'[a].qf1, self[a].qf1_target)
                      /\ self'[a].qf2_target =
                            SoftTargetUpdate(self'[a].qf2, self[a].qf2_target)
                /\ (CountOp(cs, "train_model") = 1 /\ cur'.active) => k = 1]_vars

C7_Witness ==
    \E a \in agents :
        /\ self[a].automatic_entropy_tuning
        /\ self[a].qf1.ver = 2
        /\ Len(self[a].qf1_target) = 3
        /\ Len(self[a].qf2_target) = 3
        /\ CountOp(calls, "alpha_optimizer.step") = 1

\* C8: Agent.run(max_step) ends, for every max_step >= 0, by returning
\* (steps_taken, total_reward): steps_taken is the number of env.step calls
\* made, at most max_step, and total_reward the sum of their rewards.
C8_RunReturnsStepsAndReward ==
    last.kind # "none" =>
        /\ last.kind = "returned"
        /\ last.step_number = last.env_calls
        /\ last.step_number <= last.max_step
        /\ last.total_reward = SumSeq(last.rewards)

SAC_LoggerKeys(s) ==
    {"LossPi", "LossQ1", "LossQ2"} \cup
       (IF s.automatic_entropy_tuning THEN {"LossAlpha"} ELSE {})

\* C9: after every Agent.run call returns, also before any train_model call,
\* the logger holds every summary key and every value is a number: the
\* rounded mean of a non-empty loss history.
C9_LoggedSummaryIsNumeric ==
    last.kind = "returned" =>
        LET s == self[last.agent]
            logger == heap[s.logger]
        IN  /\ DOMAIN logger = SAC_LoggerKeys(s)
            /\ \A k \in DOMAIN logger : ~logger[k].nan

\* the loss histories and the logger agent a reads
OwnContainers(a, h) ==
    <<h[self[a].actor_losses], h[self[a].qf1_losses], h[self[a].qf2_losses],
      h[self[a].alpha_losses], h[self[a].logger]>>

\* C10: per-instance training state: for two agents built with the default
\* arguments, run and train_model calls on one agent leave the other
\* agent's loss histories and logger unchanged.
C10_OtherAgentUntouched ==
    [][\A a \in agents :
          (cur.agent # a /\ cur'.agent # a) =>
             OwnContainers(a, heap') = OwnContainers(a, heap)]_vars

====
